---------------------------- MODULE Spec2Model ----------------------------
(***************************************************************************)
(* A model of the RAG corpus tools of rag-agent/tools: the naming          *)
(* resolver, the session existence cache, the corpus lifecycle helpers     *)
(* and the tool handlers built on them.                                    *)
(*                                                                         *)
(* Strings are sequences of one-character strings, so that the regular     *)
(* expressions, splits and substring tests of the code are computed and    *)
(* not assumed.  The backing service is a list of corpora in listing       *)
(* order.  Every remote call may raise: a function of the code is an       *)
(* operator yielding the set of its possible results, one for each way     *)
(* its remote calls can turn out.  vertexai.init only records project and  *)
(* location in the client library and is taken to succeed.                 *)
(***************************************************************************)
EXTENDS Naturals, Sequences, FiniteSets

VARIABLES
    state,      \* tool_context.state: the session's flags, by key
    corpora,    \* the service's corpora, in listing order
    nextId,     \* the id the service gives the next corpus it creates
    last,       \* the call that has just returned: its arguments, result, remote calls
    ensured     \* history: the identifiers for which create_corpus_if_not_exists
                \* has returned success, with no delete_corpus for them since

vars == <<state, corpora, nextId, last, ensured>>

---------------------------------------------------------------------------
(* Bounds of the model *)

\* corpora the service creates in one behaviour (ids 1..MaxCorpusId)
MaxCorpusId == 2
\* files one import call adds, and files a corpus holds at most
MaxFiles == 1
\* length of the free-form identifiers given to the resolver
MaxIdLen == 3
\* pieces a generated source path is made of
MaxPathPieces == 3

---------------------------------------------------------------------------
(* Text *)

Letters ==
    {"a","b","c","d","e","f","g","h","i","j","k","l","m","n","o","p","q","r","s","t","u","v","w","x","y","z",
     "A","B","C","D","E","F","G","H","I","J","K","L","M","N","O","P","Q","R","S","T","U","V","W","X","Y","Z"}

Digits ==
    {"0","1","2","3","4","5","6","7","8","9"}

\* the character class [a-zA-Z0-9_-]
IdChars ==
    Letters \cup Digits \cup {"_", "-"}

Slash == "/"

\* s[from..] (1-based), empty when from is past the end
Drop(s, from) ==
    IF from > Len(s) THEN << >> ELSE SubSeq(s, from, Len(s))

\* whether sub occurs in s at position i
OccursAt(s, sub, i) ==
    /\ i >= 1
    /\ i + Len(sub) - 1 <= Len(s)
    /\ \A k \in 1..Len(sub) : s[i + k - 1] = sub[k]

\* Python's `sub in s`
Contains(s, sub) ==
    \E i \in 1..(Len(s) + 1) : OccursAt(s, sub, i)

\* Python's s.startswith(sub)
StartsWith(s, sub) ==
    OccursAt(s, sub, 1)

\* positions of "/" in s
SlashPositions(s) ==
    {i \in 1..Len(s) : s[i] = Slash}

\* Python's s.split("/")[-1]: what follows the last "/", or s when there is none
LastSegment(s) ==
    IF SlashPositions(s) = {} THEN s
    ELSE LET p == CHOOSE i \in SlashPositions(s) : \A j \in SlashPositions(s) : j <= i
         IN  Drop(s, p + 1)

RECURSIVE Split(_)
\* Python's s.split("/")
Split(s) ==
    IF SlashPositions(s) = {} THEN <<s>>
    ELSE LET p == CHOOSE i \in SlashPositions(s) : \A j \in SlashPositions(s) : i <= j
         IN  <<SubSeq(s, 1, p - 1)>> \o Split(Drop(s, p + 1))

RECURSIVE Join(_)
\* "/".join(segs)
Join(segs) ==
    IF Len(segs) = 0 THEN << >>
    ELSE IF Len(segs) = 1 THEN segs[1]
    ELSE segs[1] \o <<Slash>> \o Join(Tail(segs))

\* a sanitizer that drops the disallowed characters instead of replacing them
SanitizeDropping(s) ==
    SelectSeq(s, LAMBDA c : c \in IdChars)

\* re.sub(r"[^a-zA-Z0-9_-]", "_", s)
Sanitize(s) ==
    [i \in 1..Len(s) |-> IF s[i] \in IdChars THEN s[i] ELSE "_"]

---------------------------------------------------------------------------
(* Configuration: rag-agent/config.py *)

PROJECT_ID ==
    <<"a","d","k","-","v","e","r","t","e","x","a","i","-","r","a","g">>

LOCATION ==
    <<"u","s","-","c","e","n","t","r","a","l","1">>

DEFAULT_TOP_K == 3

S_projects ==
    <<"p","r","o","j","e","c","t","s">>

S_locations ==
    <<"l","o","c","a","t","i","o","n","s">>

S_ragCorpora ==
    <<"r","a","g","C","o","r","p","o","r","a">>

\* f"projects/{PROJECT_ID}/locations/{LOCATION}/ragCorpora/{corpus_id}"
ResourceName(corpus_id) ==
    Join(<<S_projects, PROJECT_ID, S_locations, LOCATION, S_ragCorpora, corpus_id>>)

---------------------------------------------------------------------------
(* The backing service *)

\* the decimal id the service gives its n-th corpus or file
ServerId(n) ==
    <<(<<"1","2","3","4","5","6","7","8","9">>)[n]>>

\* a remote call: the API called, the resource it names, whether it returned
Call(api, target, ok) ==
    [api |-> api, target |-> target, ok |-> ok]

\* rag.list_corpora()
ListCall(ok) ==
    Call("list_corpora", << >>, ok)

\* indexes of the corpora whose display name is corpus_name, in listing order
DisplayMatches(corp, corpus_name) ==
    {i \in 1..Len(corp) : corp[i].display_name = corpus_name}

\* indexes of the corpora named name
NameMatches(corp, name) ==
    {i \in 1..Len(corp) : corp[i].name = name}

Min(S) ==
    CHOOSE i \in S : \A j \in S : i <= j

\* the list without its i-th corpus
RemoveAt(corp, i) ==
    SubSeq(corp, 1, i - 1) \o Drop(corp, i + 1)

\* the corpus rag.create_corpus(display_name=...) adds
NewCorpus(nid, display_name) ==
    [name |-> ResourceName(ServerId(nid)), display_name |-> display_name, files |-> {}]

---------------------------------------------------------------------------
(* Naming resolver: utils.get_corpus_resource_name *)

\* re.match(r"^projects/[^/]+/locations/[^/]+/ragCorpora/[^/]+$", s)
IsCanonical(s) ==
    LET segs == Split(s)
    IN  /\ Len(segs) = 6
        /\ segs[1] = S_projects
        /\ segs[3] = S_locations
        /\ segs[5] = S_ragCorpora
        /\ segs[2] # << >>
        /\ segs[4] # << >>
        /\ segs[6] # << >>

\* a fallback whose sanitizer drops characters
FallbackNameDropping(corpus_name) ==
    ResourceName(SanitizeDropping(LastSegment(corpus_name)))

\* the resolver's last resort: the last segment, sanitized, under the configured parent
FallbackName(corpus_name) ==
    ResourceName(Sanitize(LastSegment(corpus_name)))

\* the resolver's display-name lookup and fallback, ok being whether
\* rag.list_corpora() returns
LookupName(corpus_name, corp, ok) ==
    [name  |-> IF ok /\ DisplayMatches(corp, corpus_name) # {}
               THEN corp[Min(DisplayMatches(corp, corpus_name))].name
               ELSE FallbackName(corpus_name),
     calls |-> <<ListCall(ok)>>]

\* a resolver that looks every input up, canonical or not
get_corpus_resource_name_always_lookup(corpus_name, corp) ==
    {LookupName(corpus_name, corp, ok) : ok \in BOOLEAN}

\* get_corpus_resource_name(corpus_name) against the service's corpora: the name
\* returned and the remote calls issued
get_corpus_resource_name(corpus_name, corp) ==
    IF IsCanonical(corpus_name)
    THEN {[name |-> corpus_name, calls |-> << >>]}
    ELSE {LookupName(corpus_name, corp, ok) : ok \in BOOLEAN}

---------------------------------------------------------------------------
(* Session state: tool_context.state *)

KEY_PREFIX ==
    <<"c","o","r","p","u","s","_","e","x","i","s","t","s","_">>

\* f"corpus_exists_{corpus_name}"
StateKey(corpus_name) ==
    KEY_PREFIX \o corpus_name

\* tool_context.state.get(key) is truthy
Truthy(st, key) ==
    key \in DOMAIN st /\ st[key] = TRUE

\* tool_context.state[key] = v
Put(st, key, v) ==
    [k \in DOMAIN st \cup {key} |-> IF k = key THEN v ELSE st[k]]

\* del tool_context.state[key]
Del(st, key) ==
    [k \in DOMAIN st \ {key} |-> st[k]]

---------------------------------------------------------------------------
(* Existence cache: utils.check_corpus_exists *)

\* a match that any listed corpus satisfies
FoundAny(corpus_name, corp, r) ==
    Len(corp) > 0

\* whether the listed corpora hold one named as resolved or displayed as given
Found(corpus_name, corp, r) ==
    \E i \in 1..Len(corp) :
        corp[i].name = r.name \/ corp[i].display_name = corpus_name

\* a lookup that lets the failure of rag.list_corpora() escape
CheckLookupUncaught(corpus_name, st, corp, r, ok) ==
    [ret   |-> ok /\ Found(corpus_name, corp, r),
     st    |-> IF ok /\ Found(corpus_name, corp, r)
               THEN Put(st, StateKey(corpus_name), TRUE) ELSE st,
     calls |-> r.calls \o <<ListCall(ok)>>,
     raised |-> ~ok]

\* the try block of check_corpus_exists once the resolver has returned r, ok
\* being whether rag.list_corpora() returns
CheckLookup(corpus_name, st, corp, r, ok) ==
    [ret   |-> ok /\ Found(corpus_name, corp, r),
     st    |-> IF ok /\ Found(corpus_name, corp, r)
               THEN Put(st, StateKey(corpus_name), TRUE) ELSE st,
     calls |-> r.calls \o <<ListCall(ok)>>,
     raised |-> FALSE]

\* check_corpus_exists(corpus_name, tool_context): the value returned, the session
\* state afterwards, the remote calls issued, whether an exception escapes
check_corpus_exists(corpus_name, st, corp) ==
    IF Truthy(st, StateKey(corpus_name))
    THEN {[ret |-> TRUE, st |-> st, calls |-> << >>, raised |-> FALSE]}
    ELSE {CheckLookup(corpus_name, st, corp, r, ok) :
             r \in get_corpus_resource_name(corpus_name, corp), ok \in BOOLEAN}

---------------------------------------------------------------------------
(* Lifecycle: utils.create_corpus_if_not_exists *)

\* what stands in for the envelope when an exception escapes
Raised ==
    [exception |-> "raised"]

\* what a function yields: its return value, the session state, the service's
\* corpora and id counter afterwards, the remote calls issued, whether an
\* exception escapes
Result(out, st, corp, nid, calls, raised) ==
    [out |-> out, st |-> st, corp |-> corp, nid |-> nid, calls |-> calls,
     raised |-> raised]

\* a creation that does not record the new corpus in the session
CreateCorpusUnrecorded(corpus_name, corp, nid, c, ok) ==
    LET display_name == Sanitize(corpus_name)
        calls        == c.calls \o <<Call("create_corpus", display_name, ok)>>
    IN  IF ok
        THEN Result([success |-> TRUE, status |-> "success", message |-> "created",
                     corpus_name |-> ResourceName(ServerId(nid)),
                     display_name |-> display_name, was_created |-> TRUE],
                    c.st, Append(corp, NewCorpus(nid, display_name)), nid + 1, calls, FALSE)
        ELSE Result([success |-> FALSE, status |-> "error",
                     message |-> "error creating corpus",
                     corpus_name |-> corpus_name, was_created |-> FALSE],
                    c.st, corp, nid, calls, FALSE)

\* the try block of create_corpus_if_not_exists after the check c found nothing,
\* ok being whether rag.create_corpus returns
CreateCorpus(corpus_name, corp, nid, c, ok) ==
    LET display_name == Sanitize(corpus_name)
        calls        == c.calls \o <<Call("create_corpus", display_name, ok)>>
    IN  IF ok
        THEN Result([success |-> TRUE, status |-> "success", message |-> "created",
                     corpus_name |-> ResourceName(ServerId(nid)),
                     display_name |-> display_name, was_created |-> TRUE],
                    Put(c.st, StateKey(corpus_name), TRUE),
                    Append(corp, NewCorpus(nid, display_name)), nid + 1, calls, FALSE)
        ELSE Result([success |-> FALSE, status |-> "error",
                     message |-> "error creating corpus",
                     corpus_name |-> corpus_name, was_created |-> FALSE],
                    c.st, corp, nid, calls, FALSE)

\* create_corpus_if_not_exists after its existence check has yielded c
CreateAfterCheck(corpus_name, corp, nid, c) ==
    IF c.raised THEN {Result(Raised, c.st, corp, nid, c.calls, TRUE)}
    ELSE IF c.ret
    THEN {Result([success |-> TRUE, status |-> "success", message |-> "already exists",
                  corpus_name |-> corpus_name, was_created |-> FALSE],
                 c.st, corp, nid, c.calls, FALSE)}
    ELSE {CreateCorpus(corpus_name, corp, nid, c, ok) : ok \in BOOLEAN}

\* create_corpus_if_not_exists(corpus_name, tool_context)
create_corpus_if_not_exists(corpus_name, st, corp, nid) ==
    UNION {CreateAfterCheck(corpus_name, corp, nid, c) :
              c \in check_corpus_exists(corpus_name, st, corp)}

---------------------------------------------------------------------------
(* tools/delete_corpus.py *)

\* the envelope of a tool's not-found return or except branch
ErrorOut(message, corpus_name) ==
    [status |-> "error", message |-> message, corpus_name |-> corpus_name]

\* a deletion that removes the session key instead of overwriting it
DeleteResolvedForgetting(corpus_name, corp, nid, c, r, ok) ==
    LET hit   == NameMatches(corp, r.name)
        done  == ok /\ hit # {}
        calls == c.calls \o r.calls \o <<Call("delete_corpus", r.name, done)>>
    IN  IF done
        THEN Result([status |-> "success", message |-> "deleted",
                     corpus_name |-> corpus_name],
                    Del(c.st, StateKey(corpus_name)),
                    RemoveAt(corp, Min(hit)), nid, calls, FALSE)
        ELSE Result(ErrorOut("error deleting corpus", corpus_name),
                    c.st, corp, nid, calls, FALSE)

\* delete_corpus from rag.delete_corpus on, the resolver having returned r; ok is
\* whether the service is up for the call, which also needs the corpus to exist
DeleteResolved(corpus_name, corp, nid, c, r, ok) ==
    LET hit   == NameMatches(corp, r.name)
        done  == ok /\ hit # {}
        calls == c.calls \o r.calls \o <<Call("delete_corpus", r.name, done)>>
        key   == StateKey(corpus_name)
    IN  IF done
        THEN Result([status |-> "success", message |-> "deleted",
                     corpus_name |-> corpus_name],
                    IF key \in DOMAIN c.st THEN Put(c.st, key, FALSE) ELSE c.st,
                    RemoveAt(corp, Min(hit)), nid, calls, FALSE)
        ELSE Result(ErrorOut("error deleting corpus", corpus_name),
                    c.st, corp, nid, calls, FALSE)

\* delete_corpus after its existence check has yielded c
DeleteAfterCheck(corpus_name, corp, nid, c) ==
    IF c.raised
    THEN {Result(ErrorOut("error deleting corpus", corpus_name),
                 c.st, corp, nid, c.calls, FALSE)}
    ELSE IF ~c.ret
    THEN {Result(ErrorOut("does not exist", corpus_name), c.st, corp, nid, c.calls, FALSE)}
    ELSE {DeleteResolved(corpus_name, corp, nid, c, r, ok) :
             r \in get_corpus_resource_name(corpus_name, corp), ok \in BOOLEAN}

\* a delete_corpus that goes ahead whatever confirm says
delete_corpus_unconfirmed(corpus_name, confirm, st, corp, nid) ==
    UNION {DeleteAfterCheck(corpus_name, corp, nid, c) :
              c \in check_corpus_exists(corpus_name, st, corp)}

\* delete_corpus(corpus_name, confirm, tool_context)
delete_corpus(corpus_name, confirm, st, corp, nid) ==
    IF ~confirm
    THEN {Result(ErrorOut("deletion not confirmed", corpus_name),
                 st, corp, nid, << >>, FALSE)}
    ELSE UNION {DeleteAfterCheck(corpus_name, corp, nid, c) :
                   c \in check_corpus_exists(corpus_name, st, corp)}

---------------------------------------------------------------------------
(* tools/delete_document.py *)

S_ragFiles ==
    <<"r","a","g","F","i","l","e","s">>

\* f"{corpus_resource_name}/ragFiles/{document_id}"
DocumentName(corpus_resource_name, document_id) ==
    Join(<<corpus_resource_name, S_ragFiles, ServerId(document_id)>>)

\* the corpora with file f removed from the i-th
WithoutFile(corp, i, f) ==
    [corp EXCEPT ![i].files = @ \ {f}]

\* the envelope of delete_document's error returns
DocumentError(message, corpus_name, document_id) ==
    [status |-> "error", message |-> message, corpus_name |-> corpus_name,
     document_id |-> document_id]

\* delete_document from rag.delete_file on
DeleteFile(corpus_name, document_id, corp, nid, c, r, ok) ==
    LET hit   == {i \in NameMatches(corp, r.name) : document_id \in corp[i].files}
        done  == ok /\ hit # {}
        calls == c.calls \o r.calls
                   \o <<Call("delete_file", DocumentName(r.name, document_id), done)>>
    IN  IF done
        THEN Result([status |-> "success", message |-> "deleted document",
                     corpus_name |-> corpus_name, document_id |-> document_id],
                    c.st, WithoutFile(corp, Min(hit), document_id), nid, calls, FALSE)
        ELSE Result(DocumentError("error deleting document", corpus_name, document_id),
                    c.st, corp, nid, calls, FALSE)

\* a delete_document that goes on to the deletion whatever the check has yielded
DeleteDocumentUnchecked(corpus_name, document_id, corp, nid, c) ==
    {DeleteFile(corpus_name, document_id, corp, nid, c, r, ok) :
        r \in get_corpus_resource_name(corpus_name, corp), ok \in BOOLEAN}

\* delete_document after its existence check has yielded c
DeleteDocumentAfterCheck(corpus_name, document_id, corp, nid, c) ==
    IF c.raised
    THEN {Result(DocumentError("error deleting document", corpus_name, document_id),
                 c.st, corp, nid, c.calls, FALSE)}
    ELSE IF ~c.ret
    THEN {Result(DocumentError("does not exist", corpus_name, document_id),
                 c.st, corp, nid, c.calls, FALSE)}
    ELSE {DeleteFile(corpus_name, document_id, corp, nid, c, r, ok) :
             r \in get_corpus_resource_name(corpus_name, corp), ok \in BOOLEAN}

\* delete_document(corpus_name, document_id, tool_context)
delete_document(corpus_name, document_id, st, corp, nid) ==
    UNION {DeleteDocumentAfterCheck(corpus_name, document_id, corp, nid, c) :
              c \in check_corpus_exists(corpus_name, st, corp)}

---------------------------------------------------------------------------
(* tools/get_corpus_info.py *)

\* the set S as a sequence in increasing order
RECURSIVE SortedSeq(_)
SortedSeq(S) ==
    IF S = {} THEN << >> ELSE <<Min(S)>> \o SortedSeq(S \ {Min(S)})

\* file_details: one entry per listed file
FileDetails(files) ==
    [i \in 1..Len(files) |-> [file_id |-> ServerId(files[i])]]

\* a get_corpus_info for which a failed rag.get_corpus is fatal
CorpusInfoStrict(corpus_name, corp, nid, c, r, metaOk, ok) ==
    LET hit    == NameMatches(corp, r.name)
        meta   == metaOk /\ hit # {}
        listed == ok /\ hit # {}
        files  == IF hit # {} THEN SortedSeq(corp[Min(hit)].files) ELSE << >>
        calls  == c.calls \o r.calls
                    \o <<Call("get_corpus", r.name, meta), Call("list_files", r.name, listed)>>
    IN  IF meta /\ listed
        THEN Result([status |-> "success", message |-> "retrieved",
                     corpus_name |-> corpus_name, corpus_resource_name |-> r.name,
                     display_name |-> corp[Min(hit)].display_name,
                     stats |-> [file_count |-> Len(FileDetails(files))],
                     files |-> FileDetails(files)],
                    c.st, corp, nid, calls, FALSE)
        ELSE Result([status |-> "error", message |-> "error retrieving files",
                     corpus_name |-> corpus_name, corpus_resource_name |-> r.name],
                    c.st, corp, nid, calls, FALSE)

\* get_corpus_info from rag.get_corpus on; metaOk and ok are whether the service
\* is up for rag.get_corpus and for rag.list_files
CorpusInfo(corpus_name, corp, nid, c, r, metaOk, ok) ==
    LET hit    == NameMatches(corp, r.name)
        meta   == metaOk /\ hit # {}
        listed == ok /\ hit # {}
        \* corpus_display_name: the fetched one if any, corpus_name by default
        shown  == IF meta /\ corp[Min(hit)].display_name # << >>
                  THEN corp[Min(hit)].display_name ELSE corpus_name
        files  == IF hit # {} THEN SortedSeq(corp[Min(hit)].files) ELSE << >>
        calls  == c.calls \o r.calls
                    \o <<Call("get_corpus", r.name, meta), Call("list_files", r.name, listed)>>
    IN  IF listed
        THEN Result([status |-> "success", message |-> "retrieved",
                     corpus_name |-> corpus_name, corpus_resource_name |-> r.name,
                     display_name |-> shown,
                     stats |-> [file_count |-> Len(FileDetails(files))],
                     files |-> FileDetails(files)],
                    c.st, corp, nid, calls, FALSE)
        ELSE Result([status |-> "error", message |-> "error retrieving files",
                     corpus_name |-> corpus_name, corpus_resource_name |-> r.name],
                    c.st, corp, nid, calls, FALSE)

\* get_corpus_info after its existence check has yielded c
CorpusInfoAfterCheck(corpus_name, corp, nid, c) ==
    IF c.raised
    THEN {Result(ErrorOut("error retrieving corpus information", corpus_name),
                 c.st, corp, nid, c.calls, FALSE)}
    ELSE IF ~c.ret
    THEN {Result(ErrorOut("does not exist", corpus_name), c.st, corp, nid, c.calls, FALSE)}
    ELSE {CorpusInfo(corpus_name, corp, nid, c, r, metaOk, ok) :
             r \in get_corpus_resource_name(corpus_name, corp),
             metaOk \in BOOLEAN, ok \in BOOLEAN}

\* get_corpus_info(corpus_name, tool_context)
get_corpus_info(corpus_name, st, corp, nid) ==
    UNION {CorpusInfoAfterCheck(corpus_name, corp, nid, c) :
              c \in check_corpus_exists(corpus_name, st, corp)}

---------------------------------------------------------------------------
(* tools/list_corpora.py *)

\* corpus_info: one entry per listed corpus
CorpusList(corp) ==
    [i \in 1..Len(corp) |->
        [resource_name |-> corp[i].name, display_name |-> corp[i].display_name]]

\* list_corpora after rag.list_corpora(), ok being whether it returns
ListedCorpora(st, corp, nid, ok) ==
    IF ok
    THEN Result([status |-> "success", message |-> "found", corpora |-> CorpusList(corp),
                 count |-> Len(CorpusList(corp))], st, corp, nid, <<ListCall(ok)>>, FALSE)
    ELSE Result([status |-> "error", message |-> "error listing corpora"],
                st, corp, nid, <<ListCall(ok)>>, FALSE)

\* list_corpora(tool_context)
list_corpora(st, corp, nid) ==
    {ListedCorpora(st, corp, nid, ok) : ok \in BOOLEAN}

---------------------------------------------------------------------------
(* tools/rag_query.py *)

\* the result entry made of one returned context
QueryResult(ctx) ==
    [source_uri |-> ctx.source_uri, source_name |-> ctx.source_display_name,
     text |-> ctx.text, score |-> ctx.score]

\* the envelope of rag_query's error returns
QueryError(message, corpus_name, query) ==
    [status |-> "error", message |-> message, query |-> query,
     corpus_name |-> corpus_name]

\* rag.retrieval_query(rag_resources=[corpus_resource_name], ...): the call and,
\* when it returns, the contexts it returns
RetrievalCall(target, ok, ctx) ==
    [api |-> "retrieval_query", target |-> target, ok |-> ok,
     contexts |-> IF ok THEN ctx ELSE << >>]

\* a rag_query that reports an empty retrieval as an error
RetrieveEmptyAsError(corpus_name, query, cr, r, ok, ctx) ==
    LET done    == ok /\ NameMatches(cr.corp, r.name) # {}
        calls   == cr.calls \o r.calls \o <<RetrievalCall(r.name, done, ctx)>>
        results == [i \in 1..Len(ctx) |-> QueryResult(ctx[i])]
    IN  IF ~done \/ results = << >>
        THEN Result(QueryError("error querying corpus", corpus_name, query),
                    cr.st, cr.corp, cr.nid, calls, FALSE)
        ELSE Result([status |-> "success", message |-> "queried", query |-> query,
                     results |-> results, results_count |-> Len(results)],
                    cr.st, cr.corp, cr.nid, calls, FALSE)

\* rag_query from rag.retrieval_query on: the corpus stood before the call, the
\* resolver has returned r, and the service, if up (ok) and holding the corpus,
\* returns the contexts ctx
Retrieve(corpus_name, query, cr, r, ok, ctx) ==
    LET done    == ok /\ NameMatches(cr.corp, r.name) # {}
        calls   == cr.calls \o r.calls \o <<RetrievalCall(r.name, done, ctx)>>
        results == [i \in 1..Len(ctx) |-> QueryResult(ctx[i])]
    IN  IF ~done
        THEN Result(QueryError("error querying corpus", corpus_name, query),
                    cr.st, cr.corp, cr.nid, calls, FALSE)
        ELSE IF results = << >>
        THEN Result([status |-> "warning", message |-> "no results found",
                     query |-> query, results |-> << >>, results_count |-> 0],
                    cr.st, cr.corp, cr.nid, calls, FALSE)
        ELSE Result([status |-> "success", message |-> "queried", query |-> query,
                     results |-> results, results_count |-> Len(results)],
                    cr.st, cr.corp, cr.nid, calls, FALSE)

\* a rag_query that goes on to query the corpus it has just created
QueryAfterCreateEager(corpus_name, query, cr, ctxs) ==
    IF cr.raised
    THEN {Result(QueryError("error querying corpus", corpus_name, query),
                 cr.st, cr.corp, cr.nid, cr.calls, FALSE)}
    ELSE IF ~cr.out.success
    THEN {Result(QueryError("unable to access or create corpus", corpus_name, query),
                 cr.st, cr.corp, cr.nid, cr.calls, FALSE)}
    ELSE {Retrieve(corpus_name, query, cr, r, ok, ctx) :
             r \in get_corpus_resource_name(corpus_name, cr.corp),
             ok \in BOOLEAN, ctx \in ctxs}

\* rag_query after create_corpus_if_not_exists has yielded cr; ctxs is what the
\* service may return to a retrieval
QueryAfterCreate(corpus_name, query, cr, ctxs) ==
    IF cr.raised
    THEN {Result(QueryError("error querying corpus", corpus_name, query),
                 cr.st, cr.corp, cr.nid, cr.calls, FALSE)}
    ELSE IF ~cr.out.success
    THEN {Result(QueryError("unable to access or create corpus", corpus_name, query),
                 cr.st, cr.corp, cr.nid, cr.calls, FALSE)}
    ELSE IF cr.out.was_created
    THEN {Result([status |-> "warning", message |-> "created a new corpus",
                  query |-> query, corpus_name |-> corpus_name,
                  results |-> << >>, results_count |-> 0],
                 cr.st, cr.corp, cr.nid, cr.calls, FALSE)}
    ELSE {Retrieve(corpus_name, query, cr, r, ok, ctx) :
             r \in get_corpus_resource_name(corpus_name, cr.corp),
             ok \in BOOLEAN, ctx \in ctxs}

\* rag_query(corpus_name, query, tool_context)
rag_query(corpus_name, query, st, corp, nid, ctxs) ==
    UNION {QueryAfterCreate(corpus_name, query, cr, ctxs) :
              cr \in create_corpus_if_not_exists(corpus_name, st, corp, nid)}

---------------------------------------------------------------------------
(* tools/add_data.py *)

DRIVE_MARK ==
    <<"d","r","i","v","e",".","g","o","o","g","l","e",".","c","o","m","/","f","i","l","e","/","d","/">>

GS_PREFIX ==
    <<"g","s",":","/","/">>

DOCS_MARK ==
    <<"d","o","c","s",".","g","o","o","g","l","e",".","c","o","m">>

D_MARK ==
    <<"/","d","/">>

DRIVE_URL_HEAD ==
    <<"h","t","t","p","s",":","/","/","d","r","i","v","e",".","g","o","o","g","l","e",".","c","o","m","/","f","i","l","e","/","d","/">>

DRIVE_URL_TAIL ==
    <<"/","v","i","e","w">>

\* where re.search(r"/d/([a-zA-Z0-9_-]+)", path) can match: "/d/" and one id character
IdMatchStarts(path) ==
    {i \in 1..Len(path) :
        /\ OccursAt(path, D_MARK, i)
        /\ i + 3 <= Len(path)
        /\ path[i + 3] \in IdChars}

\* the longest run of id characters of path that starts at position from
IdRun(path, from) ==
    LET stops == {j \in from..(Len(path) + 1) :
                     j = Len(path) + 1 \/ path[j] \notin IdChars}
    IN  SubSeq(path, from, Min(stops) - 1)

\* match.group(1) of the leftmost match
FileId(path) ==
    IdRun(path, Min(IdMatchStarts(path)) + 3)

\* f"https://drive.google.com/file/d/{file_id}/view"
DriveUrl(file_id) ==
    DRIVE_URL_HEAD \o file_id \o DRIVE_URL_TAIL

\* a classification that takes any docs.google.com link for a convertible one
PathClassLax(path) ==
    IF Contains(path, DRIVE_MARK) THEN "drive"
    ELSE IF StartsWith(path, GS_PREFIX) THEN "gs"
    ELSE IF Contains(path, DOCS_MARK) THEN "gs"
    ELSE "invalid"

\* the branch of the validation loop a path takes
PathClass(path) ==
    IF Contains(path, DRIVE_MARK) THEN "drive"
    ELSE IF StartsWith(path, GS_PREFIX) THEN "gs"
    ELSE IF Contains(path, DOCS_MARK)
    THEN (IF IdMatchStarts(path) # {} THEN "docs" ELSE "invalid")
    ELSE "invalid"

\* conversions[path] = drive_url
PutConversion(conversions, path, drive_url) ==
    [p \in DOMAIN conversions \cup {path} |->
        IF p = path THEN drive_url ELSE conversions[p]]

\* one round of `for path in paths:` on the lists acc
ValidateOne(path, c, acc) ==
    IF c \in {"drive", "gs"}
    THEN [acc EXCEPT !.validated_paths = Append(@, path)]
    ELSE IF c = "docs"
    THEN [acc EXCEPT !.validated_paths = Append(@, DriveUrl(FileId(path))),
                     !.conversions = PutConversion(@, path, DriveUrl(FileId(path)))]
    ELSE [acc EXCEPT !.invalid_paths = Append(@, path)]

\* `for path in paths:` from the i-th path on, acc holding validated_paths,
\* invalid_paths and conversions (the dict, as a function on the original paths)
RECURSIVE ValidateLoop(_, _, _)
ValidateLoop(paths, i, acc) ==
    IF i > Len(paths) THEN acc
    ELSE ValidateLoop(paths, i + 1, ValidateOne(paths[i], PathClass(paths[i]), acc))

\* the validation of add_data
ValidatePaths(paths) ==
    ValidateLoop(paths, 1,
        [validated_paths |-> << >>, invalid_paths |-> << >>, conversions |-> << >>])

\* the i-th corpus after an import of n files: its lowest n unused file ids are
\* added, as far as the corpus has room
Imported(corp, i, n) ==
    LET free == {f \in 1..MaxFiles : f \notin corp[i].files}
        new  == {f \in free : Cardinality({g \in free : g < f}) < n}
    IN  [corp EXCEPT ![i].files = @ \cup new]

\* rag.import_files(corpus_resource_name, validated_paths, ...)
ImportCall(target, paths, ok) ==
    [api |-> "import_files", target |-> target, ok |-> ok, paths |-> paths]

\* the envelope of add_data's error returns after validation
DataError(message, corpus_name, paths) ==
    [status |-> "error", message |-> message, corpus_name |-> corpus_name,
     paths |-> paths]

\* add_data from rag.import_files on; the service, if up (ok) and holding the
\* corpus, imports n files
ImportFiles(corpus_name, paths, v, cr, r, ok, n) ==
    LET hit   == NameMatches(cr.corp, r.name)
        done  == ok /\ hit # {}
        calls == cr.calls \o r.calls \o <<ImportCall(r.name, v.validated_paths, done)>>
        after == Imported(cr.corp, Min(hit), n)
    IN  IF done
        THEN Result([status |-> "success", message |-> "added",
                     corpus_name |-> corpus_name,
                     corpus_created |-> cr.out.was_created,
                     files_added |-> Cardinality(after[Min(hit)].files)
                                       - Cardinality(cr.corp[Min(hit)].files),
                     paths |-> v.validated_paths,
                     invalid_paths |-> v.invalid_paths,
                     conversions |-> v.conversions],
                    cr.st, after, cr.nid, calls, FALSE)
        ELSE Result(DataError("error adding data", corpus_name, paths),
                    cr.st, cr.corp, cr.nid, calls, FALSE)

\* add_data after create_corpus_if_not_exists has yielded cr
AddAfterCreate(corpus_name, paths, v, cr) ==
    IF cr.raised
    THEN {Result(DataError("error adding data", corpus_name, paths),
                 cr.st, cr.corp, cr.nid, cr.calls, FALSE)}
    ELSE IF ~cr.out.success
    THEN {Result(DataError("unable to access or create corpus", corpus_name, paths),
                 cr.st, cr.corp, cr.nid, cr.calls, FALSE)}
    ELSE {ImportFiles(corpus_name, paths, v, cr, r, ok, n) :
             r \in get_corpus_resource_name(corpus_name, cr.corp),
             ok \in BOOLEAN, n \in 0..MaxFiles}

\* an add_data that ensures the corpus before it looks at the validated paths
AddValidatedEager(corpus_name, paths, v, st, corp, nid) ==
    UNION {AddAfterCreate(corpus_name, paths, v, cr) :
              cr \in create_corpus_if_not_exists(corpus_name, st, corp, nid)}

\* add_data after the validation loop has yielded v
AddValidated(corpus_name, paths, v, st, corp, nid) ==
    IF v.validated_paths = << >>
    THEN {Result([status |-> "error", message |-> "no valid paths provided",
                  invalid_paths |-> v.invalid_paths], st, corp, nid, << >>, FALSE)}
    ELSE UNION {AddAfterCreate(corpus_name, paths, v, cr) :
                   cr \in create_corpus_if_not_exists(corpus_name, st, corp, nid)}

\* add_data(corpus_name, paths, tool_context)
add_data(corpus_name, paths, st, corp, nid) ==
    UNION {AddValidated(corpus_name, paths, v, st, corp, nid) :
              v \in {ValidatePaths(paths)}}

---------------------------------------------------------------------------
(* Inputs *)

\* corpus identifiers the agent passes: the canonical path of the service's first
\* corpus, a clean display name, and a partial path that ends in the id of the
\* service's first corpus
N_canon ==
    ResourceName(ServerId(1))

N_kb ==
    <<"k","b">>

N_path ==
    <<"x","/","1">>

CorpusNames ==
    {N_canon, N_kb, N_path}

P_docs ==
    <<"h","t","t","p","s",":","/","/">> \o DOCS_MARK
        \o <<"/","d","o","c","u","m","e","n","t","/","d","/","A","B","C","1","2","3","/","e","d","i","t">>

P_gs ==
    GS_PREFIX \o <<"b","u","c","k","e","t","/","x">>

P_bad ==
    <<"n","o","t","-","a","-","p","a","t","h">>

P_docs_noid ==
    <<"h","t","t","p","s",":","/","/">> \o DOCS_MARK \o <<"/","d","/">>

PathLists ==
    {<< >>, <<P_bad>>, <<P_docs_noid, P_bad>>, <<P_docs, P_gs, P_bad>>}

\* a returned context
Ctx(i) ==
    [source_uri |-> i, source_display_name |-> i, text |-> i, score |-> i]

\* what a retrieval can return: at most DEFAULT_TOP_K contexts, in the service's order
ContextLists ==
    {<< >>, <<Ctx(2)>>, <<Ctx(3), Ctx(1), Ctx(2)>>}

Query == "q"

---------------------------------------------------------------------------
(* The state machine: one action per exported function *)

\* no tool call has returned a result that the agent has yet to read
NoCall ==
    [op |-> "none", args |-> << >>, out |-> << >>, calls |-> << >>, raised |-> FALSE]

Init ==
    /\ state = << >>
    /\ \/ corpora = << >> /\ nextId = 1
       \/ corpora = <<NewCorpus(1, N_kb)>> /\ nextId = 2
    /\ last = NoCall
    /\ ensured = {}

\* the calls are synchronous and one at a time, the agent reading each result
\* before its next call
Idle ==
    last = NoCall

\* whether the call made create_corpus_if_not_exists return success: called by
\* itself, or by a tool that went on to its own remote call or reported the creation
EnsuredBy(op, r) ==
    \/ op = "create_corpus_if_not_exists" /\ ~r.raised /\ r.out.success
    \/ /\ op \in {"rag_query", "add_data"}
       /\ \E i \in 1..Len(r.calls) :
             \/ r.calls[i].api \in {"retrieval_query", "import_files"}
             \/ r.calls[i].api = "create_corpus" /\ r.calls[i].ok

\* the history after a call of op for corpus_name with result r
Ensured(op, args, r) ==
    IF op = "delete_corpus" THEN ensured \ {args.corpus_name}
    ELSE IF EnsuredBy(op, r) THEN ensured \cup {args.corpus_name}
    ELSE ensured

\* a call with result r takes effect
Apply(op, args, r) ==
    /\ r.nid <= MaxCorpusId + 1
    /\ state' = r.st
    /\ corpora' = r.corp
    /\ nextId' = r.nid
    /\ last' = [op |-> op, args |-> args, out |-> r.out, calls |-> r.calls,
                raised |-> r.raised]
    /\ ensured' = Ensured(op, args, r)

\* the agent reads the result of the call
Return ==
    /\ last # NoCall
    /\ last' = NoCall
    /\ UNCHANGED <<state, corpora, nextId, ensured>>

Op_get_corpus_resource_name(corpus_name) ==
    /\ Idle
    /\ \E r \in get_corpus_resource_name(corpus_name, corpora) :
        Apply("get_corpus_resource_name", [corpus_name |-> corpus_name],
              Result([name |-> r.name], state, corpora, nextId, r.calls, FALSE))

Op_check_corpus_exists(corpus_name) ==
    /\ Idle
    /\ \E c \in check_corpus_exists(corpus_name, state, corpora) :
        Apply("check_corpus_exists", [corpus_name |-> corpus_name],
              Result([ret |-> c.ret], c.st, corpora, nextId, c.calls, c.raised))

Op_create_corpus_if_not_exists(corpus_name) ==
    /\ Idle
    /\ \E r \in create_corpus_if_not_exists(corpus_name, state, corpora, nextId) :
        Apply("create_corpus_if_not_exists", [corpus_name |-> corpus_name], r)

Op_delete_corpus(corpus_name, confirm) ==
    /\ Idle
    /\ \E r \in delete_corpus(corpus_name, confirm, state, corpora, nextId) :
        Apply("delete_corpus", [corpus_name |-> corpus_name, confirm |-> confirm], r)

Op_delete_document(corpus_name, document_id) ==
    /\ Idle
    /\ \E r \in delete_document(corpus_name, document_id, state, corpora, nextId) :
        Apply("delete_document",
              [corpus_name |-> corpus_name, document_id |-> document_id], r)

Op_get_corpus_info(corpus_name) ==
    /\ Idle
    /\ \E r \in get_corpus_info(corpus_name, state, corpora, nextId) :
        Apply("get_corpus_info", [corpus_name |-> corpus_name], r)

Op_list_corpora ==
    /\ Idle
    /\ \E r \in list_corpora(state, corpora, nextId) :
        Apply("list_corpora", [corpus_name |-> << >>], r)

Op_rag_query(corpus_name, query) ==
    /\ Idle
    /\ \E r \in rag_query(corpus_name, query, state, corpora, nextId, ContextLists) :
        Apply("rag_query", [corpus_name |-> corpus_name, query |-> query], r)

Op_add_data(corpus_name, paths) ==
    /\ Idle
    /\ \E r \in add_data(corpus_name, paths, state, corpora, nextId) :
        Apply("add_data", [corpus_name |-> corpus_name, paths |-> paths], r)

Next ==
    \/ \E corpus_name \in CorpusNames : Op_get_corpus_resource_name(corpus_name)
    \/ \E corpus_name \in CorpusNames : Op_check_corpus_exists(corpus_name)
    \/ \E corpus_name \in CorpusNames : Op_create_corpus_if_not_exists(corpus_name)
    \/ \E corpus_name \in CorpusNames, confirm \in BOOLEAN :
          Op_delete_corpus(corpus_name, confirm)
    \/ \E corpus_name \in CorpusNames, document_id \in 1..MaxFiles :
          Op_delete_document(corpus_name, document_id)
    \/ \E corpus_name \in CorpusNames : Op_get_corpus_info(corpus_name)
    \/ Op_list_corpora
    \/ \E corpus_name \in CorpusNames : Op_rag_query(corpus_name, Query)
    \/ \E corpus_name \in CorpusNames, paths \in PathLists :
          Op_add_data(corpus_name, paths)
    \/ Return

Spec ==
    Init /\ [][Next]_vars

---------------------------------------------------------------------------
(* The resolver on generated identifiers *)

\* segments the generated identifiers are joined from
SegPool ==
    {S_projects, S_locations, S_ragCorpora, <<"a", " ">>, << >>}

IdAlphabet ==
    {"a", "1", "-", "_", " ", ".", "/"}

\* every string of six "/"-joined segments of the pool, and every string over the
\* alphabet of at most MaxIdLen characters
GeneratedIds ==
    {Join(segs) : segs \in [1..6 -> SegPool]}
        \cup UNION {[1..n -> IdAlphabet] : n \in 0..MaxIdLen}

\* a service that holds two corpora of one display name
TwinCorpora ==
    <<NewCorpus(1, <<"a", " ">>), NewCorpus(2, <<"a", " ">>)>>

InitResolver ==
    /\ state = << >>
    /\ \/ corpora = << >> /\ nextId = 1
       \/ corpora = TwinCorpora /\ nextId = 3
    /\ last = NoCall
    /\ ensured = {}

NextResolver ==
    \/ Idle /\ \E corpus_name \in GeneratedIds : Op_get_corpus_resource_name(corpus_name)
    \/ Return

SpecResolver ==
    InitResolver /\ [][NextResolver]_vars

---------------------------------------------------------------------------
(* add_data on generated source paths *)

\* pieces the generated paths are concatenated from
PathPieces ==
    {DRIVE_MARK, GS_PREFIX, DOCS_MARK, D_MARK, <<"A","-","1">>, <<"/","e","d","i","t">>}

RECURSIVE Concat(_)
\* the pieces of a sequence, concatenated
Concat(pieces) ==
    IF pieces = << >> THEN << >> ELSE Head(pieces) \o Concat(Tail(pieces))

\* every concatenation of at most n pieces
PathsOf(n) ==
    {Concat(pieces) : pieces \in UNION {[1..k -> PathPieces] : k \in 0..n}}

\* the lists of one generated path, the lists of a given path and a shorter
\* generated one, a list that repeats a docs link, the empty list and the list
\* [docs link with id ABC123, gs://bucket/x, not-a-path]
GeneratedPathLists ==
    {<<p>> : p \in PathsOf(MaxPathPieces)}
        \cup {<<p, q>> : p \in {P_docs, P_gs, P_bad, P_docs_noid},
                         q \in PathsOf(MaxPathPieces - 1)}
        \cup {<< >>, <<P_docs, P_docs>>, <<P_docs, P_gs, P_bad>>}

NextPaths ==
    \/ Idle /\ \E corpus_name \in {N_kb}, paths \in GeneratedPathLists :
                  Op_add_data(corpus_name, paths)
    \/ Return

SpecPaths ==
    Init /\ [][NextPaths]_vars

---------------------------------------------------------------------------
(* Vocabulary of the properties *)

\* the status of the envelope a call returned, "none" if it returned no envelope
StatusOf(call) ==
    IF ~call.raised /\ "status" \in DOMAIN call.out THEN call.out.status ELSE "none"

\* whether the call issued the remote call api and it returned (ok) or raised (~ok)
HasCall(call, api, ok) ==
    \E i \in 1..Len(call.calls) : call.calls[i].api = api /\ call.calls[i].ok = ok

\* whether the call issued the remote call api at all
Issued(call, api) ==
    \E i \in 1..Len(call.calls) : call.calls[i].api = api

\* the functions that return a result envelope: the six tools and the helper
\* create_corpus_if_not_exists
Enveloped ==
    {"add_data", "rag_query", "delete_corpus", "delete_document", "get_corpus_info",
     "list_corpora", "create_corpus_if_not_exists"}

\* the remote call an operation exists to make
OwnCall(op) ==
    CASE op = "add_data" -> "import_files"
      [] op = "rag_query" -> "retrieval_query"
      [] op = "delete_corpus" -> "delete_corpus"
      [] op = "delete_document" -> "delete_file"
      [] op = "get_corpus_info" -> "list_files"
      [] op = "list_corpora" -> "list_corpora"
      [] op = "create_corpus_if_not_exists" -> "create_corpus"
      [] OTHER -> "none"

\* a direct Drive file link or a gs:// path
IsDirect(p) ==
    Contains(p, DRIVE_MARK) \/ StartsWith(p, GS_PREFIX)

\* id is the <id> of the leftmost "/d/<id>" in p: a longest non-empty run of
\* [a-zA-Z0-9_-] right after the first "/d/" that one such character follows
IsIdOf(p, id) ==
    \E i \in 1..Len(p) :
        /\ OccursAt(p, D_MARK, i)
        /\ Len(id) >= 1
        /\ i + 2 + Len(id) <= Len(p)
        /\ \A k \in 1..Len(id) : id[k] \in IdChars /\ p[i + 2 + k] = id[k]
        /\ i + 2 + Len(id) = Len(p) \/ p[i + 3 + Len(id)] \notin IdChars
        /\ \A h \in 1..(i - 1) :
              ~(OccursAt(p, D_MARK, h) /\ h + 3 <= Len(p) /\ p[h + 3] \in IdChars)

\* a docs.google.com link that carries "/d/<id>" and is not a direct link
IsDocsLink(p) ==
    /\ ~IsDirect(p)
    /\ Contains(p, DOCS_MARK)
    /\ \E i \in 1..Len(p) :
          OccursAt(p, D_MARK, i) /\ i + 3 <= Len(p) /\ p[i + 3] \in IdChars

\* a path of neither kind
IsRejected(p) ==
    ~IsDirect(p) /\ ~IsDocsLink(p)

\* url is https://drive.google.com/file/d/<id>/view for the <id> that p carries
IsDriveUrlOf(url, p) ==
    /\ Len(url) > Len(DRIVE_URL_HEAD) + Len(DRIVE_URL_TAIL)
    /\ StartsWith(url, DRIVE_URL_HEAD)
    /\ OccursAt(url, DRIVE_URL_TAIL, Len(url) - Len(DRIVE_URL_TAIL) + 1)
    /\ IsIdOf(p, SubSeq(url, Len(DRIVE_URL_HEAD) + 1, Len(url) - Len(DRIVE_URL_TAIL)))

\* what validation is to hand to the import for the accepted path p
IsImportOf(q, p) ==
    IF IsDirect(p) THEN q = p ELSE IsDriveUrlOf(q, p)

\* "projects/{PROJECT_ID}/locations/{LOCATION}/ragCorpora/"
ConfiguredParent ==
    S_projects \o <<"/">> \o PROJECT_ID \o <<"/">> \o S_locations \o <<"/">>
        \o LOCATION \o <<"/">> \o S_ragCorpora \o <<"/">>

\* the generated identifiers of the form projects/<x>/locations/<y>/ragCorpora/<z>,
\* x, y and z non-empty and free of "/"
CanonicalInputs ==
    {S_projects \o <<"/">> \o x \o <<"/">> \o S_locations \o <<"/">> \o y
         \o <<"/">> \o S_ragCorpora \o <<"/">> \o z :
        x \in SegPool \ {<< >>}, y \in SegPool \ {<< >>}, z \in SegPool \ {<< >>}}

---------------------------------------------------------------------------
(* Properties *)

\* C1: delete_corpus called with confirm = False returns status "error", issues no
\* remote call, and leaves the session state and the service's corpora as they were.
C1_UnconfirmedDeleteRefused ==
    [][(last'.op = "delete_corpus" /\ ~last'.args.confirm)
          => /\ StatusOf(last') = "error"
             /\ last'.calls = << >>
             /\ state' = state
             /\ corpora' = corpora
             /\ nextId' = nextId]_vars

\* an unconfirmed delete_corpus has returned for a corpus that the service holds
\* and the session has flagged as existing
C1_Witness ==
    /\ last.op = "delete_corpus"
    /\ ~last.args.confirm
    /\ StatusOf(last) = "error"
    /\ Truthy(state, StateKey(last.args.corpus_name))
    /\ DisplayMatches(corpora, last.args.corpus_name) # {}

\* C2: once create_corpus_if_not_exists has returned success for an identifier, and
\* no delete_corpus for that identifier has been called since, check_corpus_exists
\* for it returns True without a remote call, whatever the service holds by then.
C2_EnsuredIsCached ==
    (last.op = "check_corpus_exists" /\ last.args.corpus_name \in ensured)
        => /\ ~last.raised
           /\ last.out.ret = TRUE
           /\ last.calls = << >>

\* check_corpus_exists has answered True for an ensured identifier although the
\* service holds no corpus any more
C2_Witness ==
    /\ last.op = "check_corpus_exists"
    /\ last.args.corpus_name \in ensured
    /\ last.out.ret = TRUE
    /\ corpora = << >>

\* C3: when delete_corpus returns success, the session state holds the key
\* corpus_exists_<identifier>, set to False, whatever it held before.
C3_DeleteMarksAbsent ==
    (last.op = "delete_corpus" /\ StatusOf(last) = "success")
        => /\ StateKey(last.args.corpus_name) \in DOMAIN state
           /\ state[StateKey(last.args.corpus_name)] = FALSE

\* delete_corpus has succeeded in a call that had to look the corpus up, the
\* session not having flagged it when the call began
C3_Witness ==
    /\ last.op = "delete_corpus"
    /\ StatusOf(last) = "success"
    /\ HasCall(last, "list_corpora", TRUE)
    /\ HasCall(last, "delete_corpus", TRUE)
    /\ state[StateKey(last.args.corpus_name)] = FALSE

\* C4: when rag_query finds the corpus absent and creates it, it returns status
\* "warning" with results = [] and results_count = 0 and issues no retrieval call.
C4_QueryOfNewCorpusWarns ==
    (last.op = "rag_query" /\ HasCall(last, "create_corpus", TRUE))
        => /\ StatusOf(last) = "warning"
           /\ last.out.results = << >>
           /\ last.out.results_count = 0
           /\ ~Issued(last, "retrieval_query")

\* rag_query has created the corpus it was asked to query
C4_Witness ==
    /\ last.op = "rag_query"
    /\ HasCall(last, "create_corpus", TRUE)
    /\ StatusOf(last) = "warning"
    /\ Truthy(state, StateKey(last.args.corpus_name))

\* C5: no exception escapes a function; every function that returns an envelope
\* returns one whose status is "success", "warning" or "error"; and when the remote
\* call the operation exists to make (import_files, retrieval_query, delete_corpus,
\* delete_file, list_files, list_corpora of the list tool, create_corpus) raises,
\* the status is "error".
C5_EnvelopeAlways ==
    /\ ~last.raised
    /\ last.op \in Enveloped => StatusOf(last) \in {"success", "warning", "error"}
    /\ (last.op \in Enveloped /\ HasCall(last, OwnCall(last.op), FALSE))
          => StatusOf(last) = "error"

\* add_data has ensured the corpus, the import has then raised, and the failure
\* has come back as an error envelope
C5_Witness ==
    /\ last.op = "add_data"
    /\ HasCall(last, "create_corpus", TRUE)
    /\ HasCall(last, "import_files", FALSE)
    /\ StatusOf(last) = "error"

\* C6: add_data on a list none of whose paths validates returns status "error" with
\* invalid_paths equal to the paths given, in order, issues no remote call, and
\* leaves the session state and the service's corpora as they were.
C6_NoValidPaths ==
    [][(/\ last'.op = "add_data"
        /\ \A i \in 1..Len(last'.args.paths) : IsRejected(last'.args.paths[i]))
          => /\ StatusOf(last') = "error"
             /\ last'.calls = << >>
             /\ "invalid_paths" \in DOMAIN last'.out
             /\ last'.out.invalid_paths = last'.args.paths
             /\ state' = state
             /\ corpora' = corpora
             /\ nextId' = nextId]_vars

\* add_data has rejected a list of two paths, one a docs.google.com link with no
\* "/d/<id>", in a session that has a corpus flagged
C6_Witness ==
    /\ last.op = "add_data"
    /\ Len(last.args.paths) = 2
    /\ \A i \in 1..2 : IsRejected(last.args.paths[i])
    /\ \E i \in 1..2 : Contains(last.args.paths[i], DOCS_MARK)
    /\ StatusOf(last) = "error"
    /\ last.out.invalid_paths = last.args.paths
    /\ state # << >>

\* C7: add_data puts each path in exactly one class: a direct Drive file link or
\* gs:// path is passed on unchanged, a docs.google.com link carrying "/d/<id>" is
\* passed on as https://drive.google.com/file/d/<id>/view and recorded in
\* conversions under the original link, any other path is reported in
\* invalid_paths.  Every path handed to an import is a Drive file link or a gs://
\* path.  The list [docs link with id ABC123, gs://bucket/x, not-a-path] yields
\* the converted link and the gs path as imported, not-a-path as invalid, and the
\* one conversion.
C7_PathClasses ==
    last.op = "add_data" =>
        LET paths    == last.args.paths
            accepted == SelectSeq(paths, LAMBDA p : ~IsRejected(p))
            rejected == SelectSeq(paths, IsRejected)
        IN  /\ "invalid_paths" \in DOMAIN last.out => last.out.invalid_paths = rejected
            /\ \A i \in 1..Len(last.calls) :
                  last.calls[i].api = "import_files" =>
                      /\ Len(last.calls[i].paths) = Len(accepted)
                      /\ \A k \in 1..Len(accepted) :
                            /\ IsImportOf(last.calls[i].paths[k], accepted[k])
                            /\ IsDirect(last.calls[i].paths[k])
            /\ StatusOf(last) = "success" =>
                  /\ Len(last.out.paths) = Len(accepted)
                  /\ \A k \in 1..Len(accepted) : IsImportOf(last.out.paths[k], accepted[k])
                  /\ DOMAIN last.out.conversions
                        = {paths[k] : k \in {j \in 1..Len(paths) : IsDocsLink(paths[j])}}
                  /\ \A p \in DOMAIN last.out.conversions :
                        IsDriveUrlOf(last.out.conversions[p], p)
                  /\ paths = <<P_docs, P_gs, P_bad>> =>
                        /\ last.out.paths
                              = <<DRIVE_URL_HEAD \o <<"A","B","C","1","2","3">>
                                     \o DRIVE_URL_TAIL, P_gs>>
                        /\ last.out.invalid_paths = <<P_bad>>
                        /\ DOMAIN last.out.conversions = {P_docs}

\* add_data has imported the list [docs link, gs://bucket/x, not-a-path]
C7_Witness ==
    /\ last.op = "add_data"
    /\ last.args.paths = <<P_docs, P_gs, P_bad>>
    /\ StatusOf(last) = "success"
    /\ Len(last.out.paths) = 2
    /\ Len(last.out.invalid_paths) = 1
    /\ last.out.conversions # << >>

\* C8: once get_corpus_info is past the existence check, its outcome is that of
\* rag.list_files alone: if the listing returns, status is "success" with one entry
\* per file the corpus holds and file_count their number (none: success with
\* file_count 0), whether or not rag.get_corpus returned; if it raises, status is
\* "error".
C8_InfoFollowsListing ==
    (last.op = "get_corpus_info" /\ Issued(last, "list_files"))
        => /\ HasCall(last, "list_files", TRUE) =>
                 LET held == corpora[Min(NameMatches(corpora,
                                                     last.out.corpus_resource_name))].files
                 IN  /\ StatusOf(last) = "success"
                     /\ last.out.stats.file_count = Len(last.out.files)
                     /\ Len(last.out.files) = Cardinality(held)
                     /\ {last.out.files[k].file_id : k \in 1..Len(last.out.files)}
                           = {ServerId(f) : f \in held}
           /\ HasCall(last, "list_files", FALSE) => StatusOf(last) = "error"

\* get_corpus_info has reported an empty corpus although rag.get_corpus raised
C8_Witness ==
    /\ last.op = "get_corpus_info"
    /\ HasCall(last, "get_corpus", FALSE)
    /\ HasCall(last, "list_files", TRUE)
    /\ StatusOf(last) = "success"
    /\ last.out.stats.file_count = 0

\* C9: get_corpus_resource_name returns an identifier of the form
\* projects/<x>/locations/<y>/ragCorpora/<z> unchanged and issues no remote call.
C9_CanonicalUnchanged ==
    (last.op = "get_corpus_resource_name" /\ last.args.corpus_name \in CanonicalInputs)
        => /\ last.out.name = last.args.corpus_name
           /\ last.calls = << >>

\* the resolver has returned a canonical identifier whose segments need sanitizing,
\* the service holding corpora
C9_Witness ==
    /\ last.op = "get_corpus_resource_name"
    /\ last.args.corpus_name \in CanonicalInputs
    /\ \E k \in 1..Len(last.args.corpus_name) : last.args.corpus_name[k] = " "
    /\ last.out.name = last.args.corpus_name
    /\ corpora # << >>

\* C10: for an identifier that is not canonical and that no listed corpus has as
\* its display name, or whose lookup raised, get_corpus_resource_name returns
\* projects/{PROJECT_ID}/locations/{LOCATION}/ragCorpora/<id>, <id> being the last
\* "/"-separated segment of the identifier with every character outside
\* [a-zA-Z0-9_-] replaced by "_": of the segment's length, of allowed characters only.
C10_FallbackName ==
    (/\ last.op = "get_corpus_resource_name"
     /\ last.args.corpus_name \notin CanonicalInputs
     /\ \/ HasCall(last, "list_corpora", FALSE)
        \/ DisplayMatches(corpora, last.args.corpus_name) = {})
        => LET segs == Split(last.args.corpus_name)
               seg  == segs[Len(segs)]
               id   == Drop(last.out.name, Len(ConfiguredParent) + 1)
           IN  /\ StartsWith(last.out.name, ConfiguredParent)
               /\ Len(id) = Len(seg)
               /\ \A k \in 1..Len(seg) :
                     /\ id[k] \in IdChars
                     /\ id[k] = IF seg[k] \in IdChars THEN seg[k] ELSE "_"

\* the resolver has fallen back, after a lookup that raised, on an identifier with
\* a "/" and a last segment of one disallowed character
C10_Witness ==
    /\ last.op = "get_corpus_resource_name"
    /\ last.args.corpus_name = <<"a", "/", " ">>
    /\ HasCall(last, "list_corpora", FALSE)
    /\ last.out.name = ConfiguredParent \o <<"_">>

\* whether a listed corpus matches the identifier by canonical path or display name
Matches(corp, corpus_name) ==
    \E i \in 1..Len(corp) :
        corp[i].name = corpus_name \/ corp[i].display_name = corpus_name

\* the tools that act on a corpus through one remote call of their own
Targeting ==
    {"add_data", "rag_query", "delete_corpus", "delete_document", "get_corpus_info"}

\* the corpus resource path the call passed to the remote call api: the resource
\* named, or for rag.delete_file what precedes "/ragFiles/<document_id>"
TargetOf(call, api) ==
    LET t == call.calls[CHOOSE i \in 1..Len(call.calls) : call.calls[i].api = api].target
    IN  IF api = "delete_file"
        THEN SubSeq(t, 1, Len(t) - Len(S_ragFiles) - Len(ServerId(call.args.document_id)) - 2)
        ELSE t

\* whether the existence check that began the call, run in session state st
\* against the corpora corp, reported the corpus absent
CheckedAbsent(call, st, corp) ==
    \E c \in check_corpus_exists(call.args.corpus_name, st, corp) :
        /\ ~c.ret
        /\ Len(c.calls) <= Len(call.calls)
        /\ SubSeq(call.calls, 1, Len(c.calls)) = c.calls

\* C11: create_corpus_if_not_exists issues rag.create_corpus only when the service
\* holds no corpus matching the identifier by canonical path or display name at
\* the time of the call; when it holds one, the call returns "already exists" with
\* was_created = False and creates nothing, whatever the list calls yield.
C11_CreateIfAbsent ==
    [][last'.op = "create_corpus_if_not_exists"
          => /\ Issued(last', "create_corpus")
                   => ~Matches(corpora, last'.args.corpus_name)
             /\ Matches(corpora, last'.args.corpus_name)
                   => /\ StatusOf(last') = "success"
                      /\ last'.out.message = "already exists"
                      /\ last'.out.was_created = FALSE
                      /\ corpora' = corpora]_vars

\* C11 restricted to the calls none of whose rag.list_corpora calls raised
C11_CreateIfAbsentWhenListed ==
    [][(last'.op = "create_corpus_if_not_exists"
        /\ ~HasCall(last', "list_corpora", FALSE))
          => /\ Issued(last', "create_corpus")
                   => ~Matches(corpora, last'.args.corpus_name)
             /\ Matches(corpora, last'.args.corpus_name)
                   => /\ StatusOf(last') = "success"
                      /\ last'.out.message = "already exists"
                      /\ last'.out.was_created = FALSE
                      /\ corpora' = corpora]_vars

\* C12: check_corpus_exists fails closed: when the session flag is not true and
\* its rag.list_corpora call raises, it returns False, raises nothing and leaves
\* the session state as it was; and it changes the session state only by setting
\* the flag of its identifier to True, in a call whose rag.list_corpora returned
\* a corpus named as the resolved path or displayed as the identifier.
C12_CheckFailsClosed ==
    [][last'.op = "check_corpus_exists"
          => LET id     == last'.args.corpus_name
                 calls  == last'.calls
                 failed == calls # << >> /\ ~calls[Len(calls)].ok
                 named  == {id, ConfiguredParent \o Sanitize((Split(id))[Len(Split(id))])}
                              \cup {corpora[i].name : i \in DisplayMatches(corpora, id)}
             IN  /\ ~last'.raised
                 /\ (~Truthy(state, StateKey(id)) /\ failed)
                       => last'.out.ret = FALSE /\ state' = state
                 /\ state' # state
                       => /\ state' = Put(state, StateKey(id), TRUE)
                          /\ last'.out.ret = TRUE
                          /\ calls # << >> /\ calls[Len(calls)].ok
                          /\ \E i \in 1..Len(corpora) :
                                corpora[i].display_name = id \/ corpora[i].name \in named]_vars

\* check_corpus_exists has answered False after a listing that raised, the service
\* holding a corpus displayed as the identifier
C12_Witness ==
    /\ last.op = "check_corpus_exists"
    /\ last.calls # << >>
    /\ ~last.calls[Len(last.calls)].ok
    /\ last.out.ret = FALSE
    /\ DisplayMatches(corpora, last.args.corpus_name) # {}
    /\ ~Truthy(state, StateKey(last.args.corpus_name))

\* C13: when the existence check of delete_corpus (confirm = True), delete_document
\* or get_corpus_info reports the corpus absent, the tool returns status "error",
\* issues no delete_corpus, delete_file, get_corpus or list_files call beyond the
\* list_corpora lookups of the check, creates no corpus and changes none.
C13_AbsentIsError ==
    [][(/\ last'.op \in {"delete_corpus", "delete_document", "get_corpus_info"}
        /\ last'.op = "delete_corpus" => last'.args.confirm
        /\ CheckedAbsent(last', state, corpora))
          => /\ StatusOf(last') = "error"
             /\ \A i \in 1..Len(last'.calls) : last'.calls[i].api = "list_corpora"
             /\ corpora' = corpora
             /\ nextId' = nextId]_vars

\* delete_document has refused to act on a corpus that a listing showed absent
C13_Witness ==
    /\ last.op = "delete_document"
    /\ StatusOf(last) = "error"
    /\ last.out.message = "does not exist"
    /\ HasCall(last, "list_corpora", TRUE)
    /\ ~Issued(last, "delete_file")
    /\ corpora # << >>

\* C14: when rag_query queries a corpus that already existed and the retrieval
\* returns, the status is "warning" with results = [] and results_count = 0 if the
\* service returned no contexts, and "success" otherwise, with one result per
\* returned context, in the service's order, and results_count their number;
\* the status is never "error".
C14_QueryResults ==
    (last.op = "rag_query" /\ HasCall(last, "retrieval_query", TRUE))
        => LET ctx == last.calls[Len(last.calls)].contexts
           IN  /\ StatusOf(last) # "error"
               /\ ctx = << >> => /\ StatusOf(last) = "warning"
                                 /\ last.out.results = << >>
                                 /\ last.out.results_count = 0
               /\ ctx # << >> => /\ StatusOf(last) = "success"
                                 /\ Len(last.out.results) = Len(ctx)
                                 /\ last.out.results_count = Len(ctx)
                                 /\ \A k \in 1..Len(ctx) :
                                       /\ last.out.results[k].source_uri = ctx[k].source_uri
                                       /\ last.out.results[k].source_name
                                             = ctx[k].source_display_name
                                       /\ last.out.results[k].text = ctx[k].text
                                       /\ last.out.results[k].score = ctx[k].score

\* rag_query has returned three results in the order the service gave, which is
\* not the order of their scores
C14_Witness ==
    /\ last.op = "rag_query"
    /\ HasCall(last, "retrieval_query", TRUE)
    /\ StatusOf(last) = "success"
    /\ last.out.results_count = 3
    /\ last.out.results[1].score = 3
    /\ last.out.results[2].score = 1

\* C15: in every reachable state, each session key corpus_exists_<X> whose value is
\* True refers to a corpus the service still holds: one named X, named as X
\* resolves by fallback, or displayed as X or as X sanitized.
C15_CacheSound ==
    \A X \in CorpusNames :
        Truthy(state, StateKey(X))
            => \E i \in 1..Len(corpora) :
                  \/ corpora[i].name = X
                  \/ corpora[i].name = FallbackName(X)
                  \/ corpora[i].display_name = X
                  \/ corpora[i].display_name = Sanitize(X)

\* C16: whenever add_data, rag_query, delete_corpus, delete_document or
\* get_corpus_info issues its own remote call, the resource it names is the corpus
\* the call has just created or, if it created none, a corpus the service held
\* when the call began and that matches the identifier by name, by the name the
\* identifier falls back on, or by display name.
C16_TargetConsistent ==
    [][(last'.op \in Targeting /\ Issued(last', OwnCall(last'.op)))
          => LET t  == TargetOf(last', OwnCall(last'.op))
                 id == last'.args.corpus_name
             IN  IF HasCall(last', "create_corpus", TRUE)
                 THEN t = ResourceName(ServerId(nextId))
                 ELSE \E i \in 1..Len(corpora) :
                         /\ corpora[i].name = t
                         /\ \/ corpora[i].name = id
                            \/ corpora[i].name = FallbackName(id)
                            \/ corpora[i].display_name = id]_vars

\* C16 for the calls that did not find the session flag set, created no corpus
\* and whose resolver listings all returned
C16_TargetConsistentWhenListed ==
    [][(/\ last'.op \in Targeting
        /\ Issued(last', OwnCall(last'.op))
        /\ ~Truthy(state, StateKey(last'.args.corpus_name))
        /\ ~Issued(last', "create_corpus")
        /\ ~HasCall(last', "list_corpora", FALSE))
          => LET t  == TargetOf(last', OwnCall(last'.op))
                 id == last'.args.corpus_name
             IN  \E i \in 1..Len(corpora) :
                    /\ corpora[i].name = t
                    /\ \/ corpora[i].name = id
                       \/ corpora[i].name = FallbackName(id)
                       \/ corpora[i].display_name = id]_vars

=============================================================================
